---- MODULE Spec2Model ----
(***************************************************************************)
(* Model of the two Flask blueprints of robotframework-hub:                *)
(*   rfhub/blueprints/api/keywords.py  (JSON endpoints, class ApiEndpoint) *)
(*   rfhub/blueprints/doc/__init__.py  (HTML pages)                        *)
(* A Python str is a sequence of one-character strings, so that strip,     *)
(* lower, split, startswith, slicing and comparison are computed as the    *)
(* code computes them.  The keyword database (kwdb), robot's html_format   *)
(* and DocToHtml are collaborators outside the two files.                  *)
(***************************************************************************)
EXTENDS Integers, Sequences, FiniteSets, Bags, TLC

VARIABLES
    collections,   \* the collection records held by the store, in store order
    keywords,      \* the keyword rows held by the store, in store order
    attached,      \* TRUE iff current_app has the attribute "kwdb"
    dbError,       \* TRUE iff kwdb.get_keyword raises
    htmlFails,     \* the docs for which robot's html_format raises
    sharing,       \* TRUE iff the store hands out its own record objects
    pc,            \* "idle" (waiting for a request) or "responded"
    op,            \* the request: handler and inputs
    status,        \* HTTP status of the response (0: none yet)
    body,          \* what the handler hands to jsonify / render_template
    trace,         \* the events of the request, in program order
    handed         \* the record objects the store handed out in the request

vars == <<collections, keywords, attached, dbError, htmlFails, sharing,
          pc, op, status, body, trace, handed>>

(***************************************************************************)
(* Bounds of the model.                                                    *)
(***************************************************************************)
MaxCollections == 2
MaxKeywords == 2
MaxRenders == 2

(***************************************************************************)
(* Python values.                                                          *)
(***************************************************************************)
None == <<"None">>

Truthy(v) == v # None /\ v # <<>>

\* None where a dict is expected
NoData == [none |-> TRUE]

UpperChars == <<"A","B","C","D","E","F","G","H","I","J","K","L","M",
                "N","O","P","Q","R","S","T","U","V","W","X","Y","Z">>
LowerChars == <<"a","b","c","d","e","f","g","h","i","j","k","l","m",
                "n","o","p","q","r","s","t","u","v","w","x","y","z">>

\* the characters of the model in code point order
CodePoints == <<"\n", " ", "*", ",", "-", ".">>
              \o <<"0","1","2","3","4","5","6","7","8","9">>
              \o <<":", "<", ">", "?">> \o UpperChars \o <<"_">> \o LowerChars

Ord(c) == CHOOSE i \in 1..Len(CodePoints) : CodePoints[i] = c

LowerChar(c) ==
    IF \E i \in 1..Len(UpperChars) : UpperChars[i] = c
    THEN LowerChars[CHOOSE i \in 1..Len(UpperChars) : UpperChars[i] = c]
    ELSE c

UpperChar(c) ==
    IF \E i \in 1..Len(LowerChars) : LowerChars[i] = c
    THEN UpperChars[CHOOSE i \in 1..Len(LowerChars) : LowerChars[i] = c]
    ELSE c

\* str.lower() and str.upper()
Lower(s) == [i \in 1..Len(s) |-> LowerChar(s[i])]
Upper(s) == [i \in 1..Len(s) |-> UpperChar(s[i])]

Whitespace == {" ", "\n"}

RECURSIVE LStrip(_)
LStrip(s) == IF s # <<>> /\ Head(s) \in Whitespace THEN LStrip(Tail(s)) ELSE s

RECURSIVE RStrip(_)
RStrip(s) ==
    IF s # <<>> /\ s[Len(s)] \in Whitespace
    THEN RStrip(SubSeq(s, 1, Len(s) - 1)) ELSE s

\* str.strip()
Strip(s) == RStrip(LStrip(s))

\* str.startswith(p)
StartsWith(s, p) == Len(p) <= Len(s) /\ SubSeq(s, 1, Len(p)) = p

\* the slice s[n:]
From(s, n) == SubSeq(s, n + 1, Len(s))

\* str.split(sep) for a one-character separator: empty pieces are kept
RECURSIVE SplitAcc(_, _, _)
SplitAcc(s, sep, cur) ==
    IF s = <<>> THEN <<cur>>
    ELSE IF Head(s) = sep THEN <<cur>> \o SplitAcc(Tail(s), sep, <<>>)
    ELSE SplitAcc(Tail(s), sep, Append(cur, Head(s)))

Split(s, sep) == SplitAcc(s, sep, <<>>)

\* sep.join(words)
RECURSIVE Join(_, _)
Join(words, sep) ==
    IF words = <<>> THEN <<>>
    ELSE IF Len(words) = 1 THEN words[1]
    ELSE words[1] \o sep \o Join(Tail(words), sep)

\* s < t for Python strings: lexicographic on code points
RECURSIVE StrLess(_, _)
StrLess(s, t) ==
    IF t = <<>> THEN FALSE
    ELSE IF s = <<>> THEN TRUE
    ELSE IF Head(s) = Head(t) THEN StrLess(Tail(s), Tail(t))
    ELSE Ord(Head(s)) < Ord(Head(t))

Range(s) == {s[i] : i \in 1..Len(s)}

\* dict assignment d[k] = v
DictSet(d, k, v) == [x \in (DOMAIN d) \cup {k} |-> IF x = k THEN v ELSE d[x]]

EmptyDict == [x \in {} |-> x]

\* request.args.get(key, default)
ArgGet(args, key, default) == IF args[key] = None THEN default ELSE args[key]

(***************************************************************************)
(* String literals.                                                        *)
(***************************************************************************)
Star == <<"*">>
Comma == ","
Space == " "
Newline == "\n"
S_1 == <<"1">>
S_2 == <<"2">>
S_3 == <<"3">>
S_zz == <<"z","z">>
S_BuiltIn == <<"B","u","i","l","t","I","n">>
S_builtin == <<"b","u","i","l","t","i","n">>
S_BuiltIn_sp == <<" ","B","u","i","l","t","I","n">>
S_bstar == <<"b","*">>
S_Click == <<"C","l","i","c","k">>
S_click == <<"c","l","i","c","k">>
S_Open == <<"O","p","e","n">>
S_Nope == <<"N","o","p","e">>
S_doc_click == <<" ","C","l","i","c","k"," ","i","t","\n","m","o","r","e">>
S_doc_open == <<"o","p","e","n">>
S_doc_lib == <<"l","i","b"," ","d","o","c">>
S_ROBOT == <<"R","O","B","O","T">>
S_HTML == <<"H","T","M","L">>
S_TEXT == <<"T","E","X","T">>
S_REST == <<"R","E","S","T">>
S_robot == <<"r","o","b","o","t">>
S_BOGUS == <<"B","O","G","U","S">>
S_library == <<"l","i","b","r","a","r","y">>
S_resource == <<"r","e","s","o","u","r","c","e">>
S_a == <<"a">>
S_b == <<"b">>
S_x == <<"x">>

(***************************************************************************)
(* The store contents the model ranges over.  A store holds at most        *)
(* MaxCollections of the collections below and at most MaxKeywords of      *)
(* their keywords, the keywords in any order.  Collection 3 has no         *)
(* doc_format key and no doc.  args is a JSON-encoded list.                *)
(***************************************************************************)
JsonDumps(list) == [json |-> list]

PoolCollections == <<
    [collection_id |-> S_1, name |-> S_BuiltIn, doc |-> S_doc_lib,
     doc_format |-> S_robot, type |-> S_library],
    [collection_id |-> S_2, name |-> S_builtin, doc |-> <<>>,
     doc_format |-> S_BOGUS, type |-> S_resource],
    [collection_id |-> S_3, name |-> S_1, doc |-> None,
     type |-> S_library] >>

PoolKeywords == <<
    [collection_id |-> S_1, name |-> S_Open, doc |-> S_doc_open,
     args |-> JsonDumps(<<S_a, S_b>>)],
    [collection_id |-> S_1, name |-> S_Click, doc |-> S_doc_click,
     args |-> JsonDumps(<<>>)],
    [collection_id |-> S_2, name |-> S_click, doc |-> <<>>,
     args |-> JsonDumps(<<S_x>>)],
    [collection_id |-> S_2, name |-> S_Click, doc |-> S_doc_open,
     args |-> JsonDumps(<<S_x>>)],
    [collection_id |-> S_3, name |-> S_Click, doc |-> S_doc_open,
     args |-> JsonDumps(<<>>)] >>

\* the sequences over S without repetition, of length at most n
InjectiveSeqs(S, n) ==
    UNION {{q \in [1..k -> S] : \A i, j \in 1..k : q[i] = q[j] => i = j}
           : k \in 0..n}

\* the elements of pool chosen by the index set I, in pool order
RECURSIVE Pick(_, _, _)
Pick(pool, I, i) ==
    IF i > Len(pool) THEN <<>>
    ELSE (IF i \in I THEN <<pool[i]>> ELSE <<>>) \o Pick(pool, I, i + 1)

StoreCollections ==
    {Pick(PoolCollections, I, 1) :
        I \in {J \in SUBSET (1..Len(PoolCollections)) :
                  Cardinality(J) <= MaxCollections}}

StoreKeywords(cols) ==
    InjectiveSeqs({k \in Range(PoolKeywords) :
                      \E c \in Range(cols) : c.collection_id = k.collection_id},
                  MaxKeywords)

(***************************************************************************)
(* kwdb, the keyword database.  Its code is outside the two files; its     *)
(* methods are modelled from their contract: glob patterns on names,       *)
(* compared without regard to case, results in store order.                *)
(***************************************************************************)
RECURSIVE GlobMatch(_, _)
GlobMatch(p, s) ==
    IF p = <<>> THEN s = <<>>
    ELSE IF Head(p) = "*"
         THEN GlobMatch(Tail(p), s) \/ (s # <<>> /\ GlobMatch(p, Tail(s)))
    ELSE /\ s # <<>>
         /\ (Head(p) = "?" \/ LowerChar(Head(p)) = LowerChar(Head(s)))
         /\ GlobMatch(Tail(p), Tail(s))

RECURSIVE Filter(_, _)
Filter(s, keep) ==
    IF s = <<>> THEN <<>>
    ELSE (IF keep[Head(s)] THEN <<Head(s)>> ELSE <<>>) \o Filter(Tail(s), keep)

\* kwdb.get_collections(pattern="*", libtype="*")
kwdb_get_collections(cols, pattern, libtype) ==
    Filter(cols, [c \in Range(cols) |->
                     GlobMatch(pattern, c.name) /\ GlobMatch(libtype, c.type)])

CollectionName(cols, cid) ==
    (CHOOSE c \in Range(cols) : c.collection_id = cid).name

\* kwdb.get_keywords(pattern): (collection_id, collection_name, name, doc, args)
kwdb_get_keywords(cols, kws, pattern) ==
    LET hits == Filter(kws, [k \in Range(kws) |-> GlobMatch(pattern, k.name)])
    IN  [i \in 1..Len(hits) |->
            <<hits[i].collection_id, CollectionName(cols, hits[i].collection_id),
              hits[i].name, hits[i].doc, hits[i].args>>]

\* kwdb.get_keyword(collection_id, name): a record, or None
kwdb_get_keyword(cols, kws, cid, name) ==
    LET hits == Filter(kws, [k \in Range(kws) |->
                    k.collection_id = cid /\ Lower(k.name) = Lower(name)])
    IN  IF hits = <<>> THEN NoData
        ELSE [collection_id |-> hits[1].collection_id,
              library |-> CollectionName(cols, hits[1].collection_id),
              name |-> hits[1].name, doc |-> hits[1].doc, args |-> hits[1].args]

(***************************************************************************)
(* Flask and robot collaborators.                                          *)
(***************************************************************************)
\* flask.url_for(endpoint, collection_id=..., keyword=...)
url_for(endpoint, collection_id, keyword) ==
    [endpoint |-> endpoint, collection_id |-> collection_id, keyword |-> keyword]

\* robot.utils.html_format(doc), when it does not raise
html_format(doc) == [format |-> S_ROBOT, source |-> doc]

\* the events of a request
LogEvent(level, what, ctx) ==
    [ev |-> "log", what |-> what, level |-> level, ctx |-> ctx, code |-> 0]
CallEvent(what, ctx) ==
    [ev |-> "call", what |-> what, level |-> "", ctx |-> ctx, code |-> 0]
AbortEvent(code, what) ==
    [ev |-> "abort", what |-> what, level |-> "", ctx |-> <<>>, code |-> code]
ReturnEvent(what) ==
    [ev |-> "return", what |-> what, level |-> "", ctx |-> <<>>, code |-> 200]

Response(code, content, events) ==
    [status |-> code, body |-> content, trace |-> events]

(***************************************************************************)
(* rfhub/blueprints/api/keywords.py                                        *)
(***************************************************************************)
F_collection_id == <<"c","o","l","l","e","c","t","i","o","n","_","i","d">>
F_library == <<"l","i","b","r","a","r","y">>
F_name == <<"n","a","m","e">>
F_synopsis == <<"s","y","n","o","p","s","i","s">>
F_doc == <<"d","o","c">>
F_htmldoc == <<"h","t","m","l","d","o","c">>
F_args == <<"a","r","g","s">>
F_doc_keyword_url == <<"d","o","c","_","k","e","y","w","o","r","d","_","u","r","l">>
F_api_keyword_url == <<"a","p","i","_","k","e","y","w","o","r","d","_","u","r","l">>
F_api_library_url == <<"a","p","i","_","l","i","b","r","a","r","y","_","u","r","l">>

all_fields ==
    <<F_collection_id, F_library, F_name, F_synopsis, F_doc, F_htmldoc,
      F_args, F_doc_keyword_url, F_api_keyword_url, F_api_library_url>>

\* lines 47-49
fields_to_include(req_fields) ==
    IF req_fields = Star THEN all_fields
    ELSE LET parts == Split(req_fields, Comma)
         IN  [i \in 1..Len(parts) |-> Strip(parts[i])]

\* lines 60-70; kw is a tuple of kwdb.get_keywords
field_mapping(kw) ==
    LET keyword_collection_id == kw[1]
        keyword_collection_name == kw[2]
        keyword_name == kw[3]
        keyword_doc == kw[4]
        keyword_args == kw[5]
    IN  [f \in {F_collection_id, F_library, F_name, F_synopsis, F_doc, F_args,
                F_doc_keyword_url, F_api_keyword_url, F_api_library_url} |->
          CASE f = F_collection_id -> keyword_collection_id
            [] f = F_library -> keyword_collection_name
            [] f = F_name -> keyword_name
            [] f = F_synopsis -> Split(Strip(keyword_doc), Newline)[1]
            [] f = F_doc -> keyword_doc
            [] f = F_args -> keyword_args
            [] f = F_doc_keyword_url ->
                 url_for("doc.doc_for_library", keyword_collection_id, keyword_name)
            [] f = F_api_keyword_url ->
                 url_for("api.get_library_keyword", keyword_collection_id, keyword_name)
            [] f = F_api_library_url ->
                 url_for("api.get_library_keywords", keyword_collection_id, None)]

\* the value the except branch stores, line 85
HtmldocError(doc) == [error |-> "Error generating documentation", source |-> doc]

HtmlDocFieldDropped(acc, kw, fails) ==
    IF kw[4] \in fails
    THEN [data |-> acc.data,
          trace |-> acc.trace \o <<CallEvent("html_format", <<kw[4]>>),
                        LogEvent("error", "Failed to generate htmldoc", <<kw[3]>>)>>]
    ELSE [data |-> DictSet(acc.data, F_htmldoc, html_format(kw[4])),
          trace |-> Append(acc.trace, CallEvent("html_format", <<kw[4]>>))]

\* lines 78-85: the htmldoc field, html_format raising for the docs in fails
HtmlDocField(acc, kw, fails) ==
    IF kw[4] \in fails
    THEN [data |-> DictSet(acc.data, F_htmldoc, HtmldocError(kw[4])),
          trace |-> acc.trace \o <<CallEvent("html_format", <<kw[4]>>),
                        LogEvent("error", "Failed to generate htmldoc", <<kw[3]>>)>>]
    ELSE [data |-> DictSet(acc.data, F_htmldoc, html_format(kw[4])),
          trace |-> Append(acc.trace, CallEvent("html_format", <<kw[4]>>))]

\* lines 72-85: the loop over the requested fields
RECURSIVE FieldLoop(_, _, _, _)
FieldLoop(fields, kw, fails, acc) ==
    IF fields = <<>> THEN acc
    ELSE LET field == Head(fields)
             mapping == field_mapping(kw)
             next == IF field \in DOMAIN mapping
                     THEN [data |-> DictSet(acc.data, field, mapping[field]),
                           trace |-> acc.trace]
                     ELSE IF field = F_htmldoc THEN HtmlDocField(acc, kw, fails)
                     ELSE acc
         IN  FieldLoop(Tail(fields), kw, fails, next)

IncludesEveryKeyword(collection_id, keyword_collection_id) == TRUE

\* line 55
IncludesKeyword(collection_id, keyword_collection_id) ==
    collection_id = <<>> \/ collection_id = keyword_collection_id

\* lines 51-87: the loop over the tuples of kwdb.get_keywords
RECURSIVE KeywordLoop(_, _, _, _, _)
KeywordLoop(kws, collection_id, fields, fails, acc) ==
    IF kws = <<>> THEN acc
    ELSE LET kw == Head(kws)
             one == FieldLoop(fields, kw, fails,
                              [data |-> EmptyDict, trace |-> acc.trace])
             next == IF IncludesKeyword(collection_id, kw[1])
                     THEN [result |-> Append(acc.result, one.data),
                           trace |-> one.trace]
                     ELSE acc
         IN  KeywordLoop(Tail(kws), collection_id, fields, fails, next)

KwdbMissingLog ==
    LogEvent("error", "The 'kwdb' attribute is not set", <<>>)

KwdbMissingIgnored(then) == then

\* lines 35-38 and 108-111: abort(500) unless the store is attached
KwdbMissing(then) ==
    IF ~attached
    THEN Response(500, NoData,
                  <<KwdbMissingLog,
                    AbortEvent(500, "keyword database not configured")>>)
    ELSE then

\* lines 25-89: ApiEndpoint.get_library_keywords
get_library_keywords(cols, kws, collection_id, args, fails) ==
    LET query_pattern == Lower(Strip(ArgGet(args, "pattern", Star)))
    IN  KwdbMissing(
          LET tuples == kwdb_get_keywords(cols, kws, query_pattern)
              req_fields == Lower(Strip(ArgGet(args, "fields", Star)))
              loop == KeywordLoop(tuples, collection_id,
                        fields_to_include(req_fields), fails,
                        [result |-> <<>>,
                         trace |-> <<CallEvent("kwdb.get_keywords",
                                               <<query_pattern>>)>>])
          IN  Response(200, [keywords |-> loop.result],
                       Append(loop.trace, ReturnEvent("jsonify"))))

\* lines 91-98: ApiEndpoint.get_keywords
get_keywords(cols, kws, args, fails) ==
    get_library_keywords(cols, kws, ArgGet(args, "collection_id", <<>>),
                         args, fails)

ResolveFirst(matches, collection_id) ==
    [ambiguous |-> FALSE,
     collection_id |-> IF Len(matches) >= 1 THEN matches[1].collection_id
                       ELSE collection_id]

\* lines 116-120: the canonical id of a single match; several are ambiguous
Resolve(matches, collection_id) ==
    [ambiguous |-> Len(matches) > 1,
     collection_id |-> IF Len(matches) = 1 THEN matches[1].collection_id
                       ELSE collection_id]

FetchFailedSilently(keyword, collection_id) == <<>>

\* line 125: the warning of the except branch
FetchFailedLog(keyword, collection_id) ==
    <<LogEvent("warning", "Error fetching keyword", <<keyword, collection_id>>)>>

\* lines 122-133: the lookup with the resolved collection_id
Lookup(cols, kws, asked, collection_id, keyword, raises) ==
    LET calls == <<CallEvent("kwdb.get_collections", <<Lower(Strip(asked))>>),
                   CallEvent("kwdb.get_keyword", <<collection_id, keyword>>)>>
        keyword_data == kwdb_get_keyword(cols, kws, collection_id, keyword)
    IN  IF raises
        THEN Response(404, NoData,
                      calls \o FetchFailedLog(keyword, collection_id)
                      \o <<AbortEvent(404, "Keyword not found or database error.")>>)
        ELSE IF keyword_data # NoData
        THEN Response(200,
               [keyword |-> [collection_id |-> keyword_data.collection_id,
                             library |-> keyword_data.library,
                             name |-> keyword_data.name,
                             doc |-> keyword_data.doc,
                             args |-> keyword_data.args,
                             library_url |-> url_for("api.get_library",
                                               keyword_data.collection_id, None)]],
               Append(calls, ReturnEvent("jsonify")))
        ELSE Response(404, NoData,
                      Append(calls, AbortEvent(404, "Keyword not found.")))

\* lines 100-133: ApiEndpoint.get_library_keyword
get_library_keyword(cols, kws, collection_id, keyword, raises) ==
    KwdbMissing(
      LET pattern == Lower(Strip(collection_id))
          resolved == Resolve(kwdb_get_collections(cols, pattern, Star),
                              collection_id)
      IN  IF resolved.ambiguous
          THEN Response(404, NoData,
                 <<CallEvent("kwdb.get_collections", <<pattern>>),
                   AbortEvent(404, "Ambiguous collection identifier.")>>)
          ELSE Lookup(cols, kws, collection_id, resolved.collection_id,
                      keyword, raises))

(***************************************************************************)
(* The requests the model sends.                                           *)
(***************************************************************************)
S_fields_mixed == <<" ","N","a","m","e"," ",","," ","h","t","m","l","d","o","c">>
S_fields_bogus == <<"n","a","m","e",",","b","o","g","u","s">>
S_fields_dup == <<"d","o","c",",","h","t","m","l","d","o","c",",","h","t","m","l","d","o","c">>
S_pat_c == <<" ","C","*"," ">>

FieldsArgs == {None, S_fields_mixed, S_fields_bogus, S_fields_dup, <<>>}
PatternArgs == {None, S_pat_c}
ListCollectionIds == {<<>>, S_1, S_2, S_zz}
FetchCollectionIds ==
    {S_1, S_3, S_BuiltIn, S_BuiltIn_sp, S_builtin, S_bstar, S_zz}
KeywordNames == {S_Click, S_Nope}

NoArgs == [pattern |-> None, fields |-> None, collection_id |-> None]

Request(handler, collection_id, keyword, args) ==
    [handler |-> handler, collection_id |-> collection_id,
     keyword |-> keyword, args |-> args]

NoRequest == Request("", None, None, NoArgs)

\* the docs html_format may be given in a request
StoreDocs == {keywords[i].doc : i \in 1..Len(keywords)}

Respond(r) ==
    /\ status' = r.status
    /\ body' = r.body
    /\ trace' = r.trace
    /\ pc' = "responded"

(***************************************************************************)
(* One action per route of the api blueprint.                              *)
(***************************************************************************)
\* GET /api/keywords/<collection_id>
GetLibraryKeywords ==
    /\ pc = "idle"
    /\ \E collection_id \in ListCollectionIds \ {<<>>},
          pattern \in PatternArgs, fields \in FieldsArgs,
          fails \in SUBSET StoreDocs :
          LET args == [pattern |-> pattern, fields |-> fields,
                       collection_id |-> None]
          IN  /\ op' = Request("get_library_keywords", collection_id, None, args)
              /\ htmlFails' = fails
              /\ Respond(get_library_keywords(collections, keywords,
                                              collection_id, args, fails))
    /\ UNCHANGED <<collections, keywords, attached, dbError, sharing, handed>>

\* GET /api/keywords/
GetKeywords ==
    /\ pc = "idle"
    /\ \E collection_id \in {None} \cup ListCollectionIds,
          pattern \in PatternArgs, fields \in FieldsArgs,
          fails \in SUBSET StoreDocs :
          LET args == [pattern |-> pattern, fields |-> fields,
                       collection_id |-> collection_id]
          IN  /\ op' = Request("get_keywords", None, None, args)
              /\ htmlFails' = fails
              /\ Respond(get_keywords(collections, keywords, args, fails))
    /\ UNCHANGED <<collections, keywords, attached, dbError, sharing, handed>>

\* GET /api/keywords/<collection_id>/<keyword>
GetLibraryKeyword ==
    /\ pc = "idle"
    /\ \E collection_id \in FetchCollectionIds, keyword \in KeywordNames,
          raises \in BOOLEAN :
          /\ op' = Request("get_library_keyword", collection_id, keyword, NoArgs)
          /\ dbError' = raises
          /\ Respond(get_library_keyword(collections, keywords,
                                         collection_id, keyword, raises))
    /\ UNCHANGED <<collections, keywords, attached, htmlFails, sharing, handed>>

\* the response is sent and the request context is torn down
Done ==
    /\ pc = "responded"
    /\ pc' = "idle"
    /\ op' = NoRequest
    /\ status' = 0
    /\ body' = NoData
    /\ trace' = <<>>
    /\ handed' = <<>>
    /\ dbError' = FALSE
    /\ htmlFails' = {}
    /\ UNCHANGED <<collections, keywords, attached, sharing>>

InitRequest ==
    /\ pc = "idle"
    /\ op = NoRequest
    /\ status = 0
    /\ body = NoData
    /\ trace = <<>>
    /\ handed = <<>>
    /\ dbError = FALSE
    /\ htmlFails = {}

InitStore ==
    /\ collections \in StoreCollections
    /\ keywords \in StoreKeywords(collections)

InitApi ==
    /\ InitStore
    /\ attached \in BOOLEAN
    /\ sharing = FALSE
    /\ InitRequest

NextApi == GetLibraryKeywords \/ GetKeywords \/ GetLibraryKeyword \/ Done

SpecApi == InitApi /\ [][NextApi]_vars

(***************************************************************************)
(* Properties of the api blueprint, checked under SpecApi.                 *)
(***************************************************************************)
ListResponded ==
    pc = "responded" /\ op.handler \in {"get_library_keywords", "get_keywords"}

FetchResponded == pc = "responded" /\ op.handler = "get_library_keyword"

\* the collection id a list request asks for ("" for every collection)
AskedCollectionId ==
    IF op.handler = "get_keywords"
    THEN (IF op.args.collection_id = None THEN <<>> ELSE op.args.collection_id)
    ELSE op.collection_id

AskedPattern ==
    IF op.args.pattern = None THEN Star ELSE Lower(Strip(op.args.pattern))

\* the field names a list request asks for
AskedFields ==
    IF op.args.fields = None \/ Strip(op.args.fields) = Star
    THEN Range(all_fields)
    ELSE {Strip(Lower(part)) : part \in Range(Split(op.args.fields, Comma))}
         \ {<<>>}

\* the tuples of kwdb.get_keywords(pattern) of the asked collection
AskedTuples ==
    LET tuples == kwdb_get_keywords(collections, keywords, AskedPattern)
    IN  Filter(tuples, [t \in Range(tuples) |->
                           AskedCollectionId = <<>> \/ t[1] = AskedCollectionId])

\* entry is made of the values of tuple t
EntryOf(entry, t) ==
    /\ F_collection_id \in DOMAIN entry => entry[F_collection_id] = t[1]
    /\ F_library \in DOMAIN entry => entry[F_library] = t[2]
    /\ F_name \in DOMAIN entry => entry[F_name] = t[3]
    /\ F_doc \in DOMAIN entry => entry[F_doc] = t[4]
    /\ F_args \in DOMAIN entry => entry[F_args] = t[5]

OneEntryPerAskedTuple ==
    /\ Len(body.keywords) = Len(AskedTuples)
    /\ \A i \in 1..Len(AskedTuples) : EntryOf(body.keywords[i], AskedTuples[i])

\* C1 as stated: every entry of a list response has exactly the requested
\* field names as its keys (all ten for "*"), and the response has one entry,
\* in store order, per tuple of kwdb.get_keywords of the asked collection.
C1_KeysAreRequestedFields ==
    (ListResponded /\ status = 200) =>
        /\ OneEntryPerAskedTuple
        /\ \A i \in 1..Len(body.keywords) :
              DOMAIN body.keywords[i] = AskedFields

\* C1 amended: the keys of every entry are exactly the requested field names
\* that are among the ten recognized fields (all ten for "*"); a requested
\* name that is not recognized is left out.  One entry per tuple as before.
C1_KeysAreRecognizedRequestedFields ==
    (ListResponded /\ status = 200) =>
        /\ OneEntryPerAskedTuple
        /\ \A i \in 1..Len(body.keywords) :
              DOMAIN body.keywords[i] = AskedFields \cap Range(all_fields)

C1_Witness ==
    /\ ListResponded /\ status = 200
    /\ op.args.fields = S_fields_bogus
    /\ AskedCollectionId = S_1
    /\ Len(keywords) = 2
    /\ Len(body.keywords) = 1
    /\ DOMAIN body.keywords[1] = {F_name}

\* what the same list request returns when html_format never raises
CleanList ==
    IF op.handler = "get_keywords"
    THEN get_keywords(collections, keywords, op.args, {})
    ELSE get_library_keywords(collections, keywords, op.collection_id,
                              op.args, {})

HtmlRequested == F_htmldoc \in AskedFields

C3_NameResolvesLikeId ==
    FetchResponded =>
        \A c \in Range(collections) :
            (/\ op.collection_id = c.name
             /\ Len(kwdb_get_collections(collections, c.name, Star)) = 1)
            => LET byId == get_library_keyword(collections, keywords,
                               c.collection_id, op.keyword, dbError)
               IN  status = byId.status /\ body = byId.body

\* C4: a fetch whose collection identifier matches two or more collections
\* ends with 404, whatever the keyword name and whether or not a matching
\* collection has a keyword of that name.
C4_AmbiguousIs404 ==
    (/\ FetchResponded /\ attached
     /\ Len(kwdb_get_collections(collections,
                Lower(Strip(op.collection_id)), Star)) >= 2)
    => status = 404

C4_Witness ==
    /\ FetchResponded /\ attached /\ status = 404
    /\ LET matches == kwdb_get_collections(collections,
                          Lower(Strip(op.collection_id)), Star)
       IN  /\ Len(matches) = 2
           /\ kwdb_get_keyword(collections, keywords,
                  matches[1].collection_id, op.keyword) # NoData

\* C7: with no store attached, every api request ends with status 500 and
\* calls no method of the store.
C7_MissingStoreIs500 ==
    (pc = "responded" /\ ~attached) =>
        /\ status = 500
        /\ \A i \in 1..Len(trace) : trace[i].ev # "call"

C7_Witness ==
    /\ FetchResponded /\ ~attached /\ status = 500
    /\ Len(keywords) > 0

Logged(i) == trace[i].ev = "log"

\* C8 as stated: every error status of an api request is preceded, in the
\* same request, by a log entry (one that carries the keyword/collection
\* context, which asks for more than the log entry required here).
C8_EveryErrorIsLogged ==
    (pc = "responded" /\ status \in {404, 500}) =>
        \E i, j \in 1..Len(trace) :
            i < j /\ Logged(i) /\ trace[j].ev = "abort"

StoreRaised ==
    /\ dbError
    /\ \E i \in 1..Len(trace) :
          trace[i].ev = "call" /\ trace[i].what = "kwdb.get_keyword"

\* C8 amended: the 500 of a missing store is preceded by an error log entry
\* (without keyword or collection in it), the 404 of a store exception by a
\* warning that carries the keyword and the resolved collection id; the 404
\* of an ambiguous identifier and of a keyword with no data are not logged.
C8_LoggedErrors ==
    (pc = "responded" /\ status \in {404, 500}) =>
        /\ trace[Len(trace)].ev = "abort" /\ trace[Len(trace)].code = status
        /\ status = 500 =>
              /\ Len(trace) = 2 /\ Logged(1) /\ trace[1].level = "error"
              /\ trace[1].ctx = <<>>
        /\ (status = 404 /\ StoreRaised) =>
              /\ Logged(Len(trace) - 1)
              /\ trace[Len(trace) - 1].level = "warning"
              /\ trace[Len(trace) - 1].ctx =
                    <<op.keyword, trace[Len(trace) - 2].ctx[1]>>
        /\ (status = 404 /\ ~StoreRaised) =>
              \A i \in 1..Len(trace) : ~Logged(i)

C8_Witness ==
    /\ FetchResponded /\ status = 404 /\ StoreRaised
    /\ op.collection_id = S_BuiltIn
    /\ trace[Len(trace) - 1].ctx = <<op.keyword, S_1>>

(***************************************************************************)
(* kwdb methods used by the doc blueprint, modelled from their contract.   *)
(***************************************************************************)
\* the text pattern occurs in s, compared without regard to case
Contains(s, pattern) == GlobMatch(Star \o pattern \o Star, s)

\* kwdb.search(pattern, mode): (collection_id, collection_name, name, synopsis)
kwdb_search(cols, kws, pattern, mode) ==
    LET hits == Filter(kws, [k \in Range(kws) |->
                    \/ Contains(k.name, pattern)
                    \/ (mode = "both" /\ Contains(k.doc, pattern))])
    IN  [i \in 1..Len(hits) |->
            <<hits[i].collection_id, CollectionName(cols, hits[i].collection_id),
              hits[i].name, Split(Strip(hits[i].doc), Newline)[1]>>]

\* kwdb.get_keyword_data(collection_id): (keyword_id, name, args, doc)
kwdb_get_keyword_data(kws, collection_id) ==
    LET ids == Filter([i \in 1..Len(kws) |-> i],
                      [i \in 1..Len(kws) |-> kws[i].collection_id = collection_id])
    IN  [n \in 1..Len(ids) |->
            <<ids[n], kws[ids[n]].name, kws[ids[n]].args, kws[ids[n]].doc>>]

\* kwdb.get_keyword_hierarchy(): built anew for every call
kwdb_get_keyword_hierarchy(cols, kws) ==
    [i \in 1..Len(cols) |->
        LET mine == Filter(kws, [k \in Range(kws) |->
                               k.collection_id = cols[i].collection_id])
        IN  [collection_id |-> cols[i].collection_id, name |-> cols[i].name,
             keywords |-> [n \in 1..Len(mine) |-> [name |-> mine[n].name]]]]

(***************************************************************************)
(* rfhub/blueprints/doc/__init__.py: search                                *)
(***************************************************************************)
S_in == <<"i","n",":">>
S_name_colon == <<"n","a","m","e",":">>
S_row == <<"r","o","w","-">>
S_version == <<"v","e","r","s","i","o","n">>

\* str.replace(a, b) for one-character a and b
Replace(s, a, b) == [i \in 1..Len(s) |-> IF s[i] = a THEN b ELSE s[i]]

\* lines 66-70: the "name:" prefix selects the mode
SearchMode(pattern) ==
    IF StartsWith(pattern, S_name_colon)
    THEN [pattern |-> Strip(From(pattern, 5)), mode |-> "name"]
    ELSE [pattern |-> pattern, mode |-> "both"]

\* lines 72-76: the loop over the words of the pattern
RECURSIVE WordLoop(_, _, _)
WordLoop(split, names, acc) ==
    IF split = <<>> THEN acc
    ELSE LET word == Head(split)
             next == IF StartsWith(Lower(word), S_in)
                     THEN [words |-> acc.words,
                           filters |-> acc.filters \o
                               Filter(names, [name \in Range(names) |->
                                          StartsWith(name, From(word, 3))])]
                     ELSE [words |-> Append(acc.words, word),
                           filters |-> acc.filters]
         IN  WordLoop(Tail(split), names, next)

\* lines 58-77: the pattern, the mode and the filters of a query
ParseQuery(cols, query) ==
    LET first == SearchMode(Lower(Strip(query)))
        all == kwdb_get_collections(cols, Star, Star)
        names == [i \in 1..Len(all) |-> Lower(all[i].name)]
        loop == WordLoop(Split(first.pattern, Space), names,
                         [words |-> <<>>, filters |-> <<>>])
    IN  [pattern |-> Join(loop.words, <<Space>>), mode |-> first.mode,
         filters |-> loop.filters]

\* line 84
PassesFilters(filters, collection_name) ==
    Len(filters) = 0 \/ collection_name \in Range(filters)

\* lines 85-99: the row of a keyword tuple
SearchRow(keyword) ==
    [collection_id |-> keyword[1], collection_name |-> keyword[2],
     name |-> keyword[3], synopsis |-> keyword[4], version |-> S_version,
     url |-> url_for("doc.doc_for_library", keyword[1], keyword[3]),
     row_id |-> S_row \o Lower(keyword[2]) \o <<".">>
                \o Replace(Lower(keyword[3]), " ", "-")]

\* lines 79-100: the loop over the tuples of kwdb.search
RECURSIVE RowLoop(_, _)
RowLoop(found, filters) ==
    IF found = <<>> THEN <<>>
    ELSE (IF PassesFilters(filters, Lower(Head(found)[2]))
          THEN <<SearchRow(Head(found))>> ELSE <<>>)
         \o RowLoop(Tail(found), filters)

\* row goes after the rows of sorted whose name is not greater: a stable sort
RECURSIVE InsertByName(_, _)
InsertByName(sorted, row) ==
    IF sorted = <<>> THEN <<row>>
    ELSE IF StrLess(row.name, Head(sorted).name) THEN <<row>> \o sorted
    ELSE <<Head(sorted)>> \o InsertByName(Tail(sorted), row)

RECURSIVE SortRows(_, _)
SortRows(rows, sorted) ==
    IF rows = <<>> THEN sorted
    ELSE SortRows(Tail(rows), InsertByName(sorted, Head(rows)))

Unsorted(rows) == rows

\* line 102: keywords.sort(key=lambda kw: kw["name"])
SortByName(rows) == SortRows(rows, <<>>)

\* lines 56-106: search
search(cols, kws, query) ==
    LET parsed == ParseQuery(cols, query)
        found == kwdb_search(cols, kws, parsed.pattern, parsed.mode)
    IN  Response(200,
          [keywords |-> SortByName(RowLoop(found, parsed.filters)),
           pattern |-> parsed.pattern],
          <<CallEvent("kwdb.get_collections", <<>>),
            CallEvent("kwdb.search", <<parsed.pattern>>),
            ReturnEvent("search.html")>>)

Q_in_builtin_click == <<"i","n",":","b","u","i","l","t","i","n"," ","c","l","i","c","k">>
Q_in_zz_click == <<"i","n",":","z","z"," ","c","l","i","c","k">>
Q_in_two == <<"I","N",":","1"," ","i","n",":","b","u","i","l","t","i","n">>
Q_name_click == <<" ","n","a","m","e",":"," ","C","l","i","c","k">>
Q_open == <<"o","p","e","n">>

Queries == {None, Q_in_builtin_click, Q_in_zz_click, Q_in_two, Q_name_click, Q_open}

\* GET /doc/search/?pattern=...
Search ==
    /\ pc = "idle"
    /\ \E query \in Queries :
          LET args == [pattern |-> query, fields |-> None, collection_id |-> None]
          IN  /\ op' = Request("search", None, None, args)
              /\ Respond(search(collections, keywords, ArgGet(args, "pattern", Star)))
    /\ UNCHANGED <<collections, keywords, attached, dbError, htmlFails,
                   sharing, handed>>

(***************************************************************************)
(* rfhub/blueprints/doc/__init__.py: doc_to_html and the url helpers       *)
(***************************************************************************)
ValidFormats == {S_ROBOT, S_HTML, S_TEXT, S_REST}

\* robot's DocToHtml(fmt)(doc): DataError for a format that is not valid,
\* else the doc as HTML, written here as the doc behind a tag of the format
DocToHtml(fmt, doc) ==
    [raised |-> fmt \notin ValidFormats,
     html |-> <<"<">> \o fmt \o <<">">> \o doc]

Converted(fmt, doc) ==
    LET conv == DocToHtml(fmt, doc)
    IN  [raised |-> conv.raised, html |-> conv.html,
         trace |-> <<CallEvent("DocToHtml", <<fmt, doc>>)>>]

doc_to_html_unguarded(doc, doc_format) ==
    Converted(Upper(IF Truthy(doc_format) THEN doc_format ELSE S_ROBOT), doc)

\* lines 171-197: doc_to_html
doc_to_html(doc, doc_format) ==
    IF ~Truthy(doc) THEN [raised |-> FALSE, html |-> <<>>, trace |-> <<>>]
    ELSE Converted(Upper(IF Truthy(doc_format) THEN doc_format ELSE S_ROBOT),
                   doc)

\* a record object the store handed out: as handed out, and as it is now
Handed(kind, orig, now) == [kind |-> kind, orig |-> orig, now |-> now]

\* the store's records after the handler changed the objects in changed:
\* its own objects when it hands them out, untouched when it hands out copies
StoreAfter(cols, changed) ==
    IF sharing
    THEN [i \in 1..Len(cols) |->
            IF \E c \in Range(changed) : c.collection_id = cols[i].collection_id
            THEN CHOOSE c \in Range(changed) :
                     c.collection_id = cols[i].collection_id
            ELSE cols[i]]
    ELSE cols

AddUrlLowersName(result) ==
    DictSet(DictSet(result, "name", Lower(result["name"])), "url",
            url_for("doc.doc_for_library", result.collection_id, None))

\* lines 146-147: result["url"] = url
AddUrl(result) ==
    DictSet(result, "url",
            url_for("doc.doc_for_library", result.collection_id, None))

\* lines 142-149: get_collections
get_collections(cols, libtype) ==
    LET found == kwdb_get_collections(cols, Star, libtype)
        result == [i \in 1..Len(found) |-> AddUrl(found[i])]
    IN  [result |-> result,
         handed |-> [i \in 1..Len(found) |->
                        Handed("collection", found[i], result[i])],
         trace |-> <<CallEvent("kwdb.get_collections", <<libtype>>)>>]

\* lines 155-165: the urls of a library of the hierarchy and of its keywords
AddNodeUrls(library) ==
    [collection_id |-> library.collection_id, name |-> library.name,
     url |-> url_for("doc.doc_for_library", library.collection_id, None),
     keywords |-> [n \in 1..Len(library.keywords) |->
         DictSet(library.keywords[n], "url",
                 url_for("doc.doc_for_library", library.collection_id,
                         library.keywords[n].name))]]

\* lines 152-167: get_navpanel_data
get_navpanel_data(cols, kws) ==
    LET data == kwdb_get_keyword_hierarchy(cols, kws)
        result == [i \in 1..Len(data) |-> AddNodeUrls(data[i])]
    IN  [result |-> result,
         handed |-> [i \in 1..Len(data) |-> Handed("node", data[i], result[i])],
         trace |-> <<CallEvent("kwdb.get_keyword_hierarchy", <<>>)>>]

(***************************************************************************)
(* rfhub/blueprints/doc/__init__.py: the pages                             *)
(***************************************************************************)
PageResult(code, content, events, store, objects) ==
    [status |-> code, body |-> content, trace |-> events, store |-> store,
     handed |-> objects]

Raised(events, store, objects) ==
    PageResult(500, NoData, Append(events, AbortEvent(500, "exception")),
               store, objects)

\* lines 19-36: doc
doc(cols, kws) ==
    LET libraries == get_collections(cols, S_library)
        cols1 == StoreAfter(cols, libraries.result)
        resource_files == get_collections(cols1, S_resource)
        cols2 == StoreAfter(cols1, resource_files.result)
        hierarchy == get_navpanel_data(cols2, kws)
    IN  PageResult(200,
          [libraries |-> libraries.result, version |-> S_version,
           libdoc |-> NoData, hierarchy |-> hierarchy.result,
           resource_files |-> resource_files.result],
          libraries.trace \o resource_files.trace \o hierarchy.trace
              \o <<ReturnEvent("home.html")>>,
          cols2,
          libraries.handed \o resource_files.handed \o hierarchy.handed)

\* lines 40-50: index
index(cols, kws) ==
    LET libraries == get_collections(cols, S_library)
        cols1 == StoreAfter(cols, libraries.result)
        resource_files == get_collections(cols1, S_resource)
        cols2 == StoreAfter(cols1, resource_files.result)
    IN  PageResult(200,
          [libraries |-> libraries.result, version |-> S_version,
           resource_files |-> resource_files.result],
          libraries.trace \o resource_files.trace
              \o <<ReturnEvent("libraryNames.html")>>,
          cols2,
          libraries.handed \o resource_files.handed)

\* json.loads of a JSON-encoded list
JsonLoads(text) == text.json

S_comma_space == <<",", " ">>

\* lines 120-126: the loop over the rows of kwdb.get_keyword_data; it ends
\* at the first doc whose conversion raises
RECURSIVE DocKeywordLoop(_, _, _, _)
DocKeywordLoop(rows, lib_doc_format, keyword, acc) ==
    IF rows = <<>> \/ acc.raised THEN acc
    ELSE LET name == Head(rows)[2]
             args == Join(JsonLoads(Head(rows)[3]), S_comma_space)
             doc_html == doc_to_html(Head(rows)[4], lib_doc_format)
             target == (name = keyword)
         IN  DocKeywordLoop(Tail(rows), lib_doc_format, keyword,
                [keywords |-> IF doc_html.raised THEN acc.keywords
                              ELSE Append(acc.keywords,
                                     <<name, args, doc_html.html, target>>),
                 trace |-> acc.trace \o doc_html.trace,
                 raised |-> doc_html.raised])

\* kwdb.get_collection(collection_id): the records of that id
kwdb_get_collection(cols, collection_id) ==
    Filter(cols, [c \in Range(cols) |-> c.collection_id = collection_id])

\* lines 112-140: doc_for_library
doc_for_library(cols, kws, collection_id, keyword) ==
    LET got == kwdb_get_collection(cols, collection_id)
        call == <<CallEvent("kwdb.get_collection", <<collection_id>>)>>
    IN  IF got = <<>> THEN Raised(call, cols, <<>>)
        ELSE
        LET libdoc == got[1]
            lib_doc_format == IF "doc_format" \in DOMAIN libdoc
                              THEN libdoc["doc_format"] ELSE S_ROBOT
            loop == DocKeywordLoop(kwdb_get_keyword_data(kws, collection_id),
                       lib_doc_format, keyword,
                       [keywords |-> <<>>, raised |-> FALSE,
                        trace |-> Append(call,
                           CallEvent("kwdb.get_keyword_data", <<collection_id>>))])
            converted == doc_to_html(libdoc["doc"], lib_doc_format)
            rendered == [libdoc EXCEPT !["doc"] = converted.html]
            hierarchy == get_navpanel_data(cols, kws)
        IN  IF loop.raised
            THEN Raised(loop.trace, cols, <<Handed("collection", libdoc, libdoc)>>)
            ELSE IF converted.raised
            THEN Raised(loop.trace \o converted.trace, cols,
                        <<Handed("collection", libdoc, libdoc)>>)
            ELSE PageResult(200,
                   [keywords |-> loop.keywords, version |-> S_version,
                    libdoc |-> rendered, hierarchy |-> hierarchy.result,
                    collection_id |-> collection_id],
                   loop.trace \o converted.trace \o hierarchy.trace
                       \o <<ReturnEvent("library.html")>>,
                   StoreAfter(cols, <<rendered>>),
                   <<Handed("collection", libdoc, rendered)>> \o hierarchy.handed)

\* how many times a doc was converted
Renders(text) ==
    IF text = None THEN 0
    ELSE Cardinality({i \in 1..Len(text) : text[i] = "<"})

PageCollectionIds == {S_1, S_2, S_3, S_zz}

Page(r) ==
    /\ status' = r.status
    /\ body' = r.body
    /\ trace' = r.trace
    /\ collections' = r.store
    /\ handed' = r.handed
    /\ pc' = "responded"

\* GET /doc/ and GET /doc/keywords/
Doc ==
    /\ pc = "idle"
    /\ op' = Request("doc", None, None, NoArgs)
    /\ Page(doc(collections, keywords))
    /\ UNCHANGED <<keywords, attached, dbError, htmlFails, sharing>>

\* GET /doc/index
Index ==
    /\ pc = "idle"
    /\ op' = Request("index", None, None, NoArgs)
    /\ Page(index(collections, keywords))
    /\ UNCHANGED <<keywords, attached, dbError, htmlFails, sharing>>

\* GET /doc/keywords/<collection_id> and /doc/keywords/<collection_id>/<keyword>
DocForLibrary ==
    /\ pc = "idle"
    /\ \E collection_id \in PageCollectionIds, keyword \in {None, S_Click} :
          /\ \A c \in Range(collections) :
                c.collection_id = collection_id => Renders(c.doc) < MaxRenders
          /\ op' = Request("doc_for_library", collection_id, keyword, NoArgs)
          /\ Page(doc_for_library(collections, keywords, collection_id, keyword))
    /\ UNCHANGED <<keywords, attached, dbError, htmlFails, sharing>>

InitDoc ==
    /\ InitStore
    /\ attached = TRUE
    /\ sharing \in BOOLEAN
    /\ InitRequest

NextDoc == Doc \/ Index \/ Search \/ DocForLibrary \/ Done

SpecDoc == InitDoc /\ [][NextDoc]_vars

(***************************************************************************)
(* Properties of the doc blueprint, checked under SpecDoc.                 *)
(***************************************************************************)
SearchResponded == pc = "responded" /\ op.handler = "search"

AskedQuery ==
    LET query == IF op.args.pattern = None THEN Star ELSE op.args.pattern
        text == Lower(Strip(query))
    IN  IF StartsWith(text, S_name_colon) THEN Strip(From(text, 5)) ELSE text

\* the prefixes of the in:<prefix> tokens of the query
AskedPrefixes ==
    {From(word, 3) : word \in {w \in Range(Split(AskedQuery, Space)) :
                                  StartsWith(w, S_in)}}

\* the query without its in: tokens
AskedText ==
    LET split == Split(AskedQuery, Space)
    IN  Join(Filter(split, [w \in Range(split) |-> ~StartsWith(w, S_in)]),
             <<Space>>)

AskedMode ==
    LET query == IF op.args.pattern = None THEN Star ELSE op.args.pattern
    IN  IF StartsWith(Lower(Strip(query)), S_name_colon) THEN "name" ELSE "both"

\* the tuples kwdb.search reports for the asked text
Reported == kwdb_search(collections, keywords, AskedText, AskedMode)

\* C5 as stated: a search with in:<prefix> tokens returns only keywords of
\* collections whose lower-cased name starts with one of the prefixes, and
\* only keywords kwdb.search reports for the remaining words; also when no
\* collection name starts with a prefix.
C5_OnlyFilteredCollections ==
    (SearchResponded /\ AskedPrefixes # {}) =>
        \A i \in 1..Len(body.keywords) :
            /\ \E prefix \in AskedPrefixes :
                  StartsWith(Lower(body.keywords[i].collection_name), prefix)
            /\ \E t \in Range(Reported) :
                  /\ t[1] = body.keywords[i].collection_id
                  /\ t[3] = body.keywords[i].name

BagOf(seq) ==
    [x \in Range(seq) |-> Cardinality({i \in 1..Len(seq) : seq[i] = x})]

\* the orders the store can hold its keyword rows in
StoreOrders(seq) ==
    {[i \in 1..Len(seq) |-> seq[p[i]]] :
        p \in {q \in [1..Len(seq) -> 1..Len(seq)] :
                  \A i, j \in 1..Len(seq) : q[i] = q[j] => i = j}}

\* C6: the rows of a search are in ascending order of keyword name, and they
\* are the same rows, each as often, whatever order the store holds its
\* keywords in (and kwdb.search returns them in).
C6_SortedByName ==
    SearchResponded =>
        /\ \A i, j \in 1..Len(body.keywords) :
              i < j => ~StrLess(body.keywords[j].name, body.keywords[i].name)
        /\ \A other \in StoreOrders(keywords) :
              LET there == search(collections, other, ArgGet(op.args, "pattern", Star))
              IN  /\ BagOf(there.body.keywords) = BagOf(body.keywords)
                  /\ \A i \in 1..Len(body.keywords) :
                        there.body.keywords[i].name = body.keywords[i].name

C6_Witness ==
    /\ SearchResponded
    /\ Len(keywords) = 2
    /\ StrLess(keywords[2].name, keywords[1].name)
    /\ Len(body.keywords) = 2
    /\ body.keywords[1].name = keywords[2].name
    /\ body.keywords[2].name = keywords[1].name

\* C9 as stated: the record objects the store handed out in a request have
\* the fields and values they were handed out with.
C9_RecordsUnchanged ==
    pc = "responded" =>
        \A i \in 1..Len(handed) : handed[i].now = handed[i].orig

PageFormat(rec) ==
    IF "doc_format" \in DOMAIN rec THEN rec["doc_format"] ELSE S_ROBOT

\* C9 amended: the helpers write a "url" field into every record object the
\* store handed out (collection records, hierarchy nodes and their
\* keywords), and doc_for_library replaces the "doc" of the record of
\* kwdb.get_collection by its HTML conversion; no other field is changed or
\* added.  A store that hands out copies keeps its records as they were; a
\* store that hands out its own objects holds the changed ones, so that a
\* second rendering of the page converts the converted doc.
C9_OnlyUrlAndDocChange ==
    pc = "responded" =>
        /\ \A i \in 1..Len(handed) :
              LET orig == handed[i].orig
                  now == handed[i].now
              IN  /\ \A f \in DOMAIN orig \ {"url", "doc", "keywords"} :
                        f \in DOMAIN now /\ now[f] = orig[f]
                  /\ DOMAIN now \subseteq DOMAIN orig \cup {"url"}
                  /\ IF op.handler = "doc_for_library" /\ i = 1
                     THEN /\ DOMAIN now = DOMAIN orig
                          /\ now["doc"] = IF status = 200
                               THEN doc_to_html(orig["doc"], PageFormat(orig)).html
                               ELSE orig["doc"]
                     ELSE /\ now["url"] = url_for("doc.doc_for_library",
                                                  orig["collection_id"], None)
                          /\ handed[i].kind = "collection" =>
                                now["doc"] = orig["doc"]
                          /\ handed[i].kind = "node" =>
                                /\ Len(now["keywords"]) = Len(orig["keywords"])
                                /\ \A n \in 1..Len(orig["keywords"]) :
                                      /\ now["keywords"][n]["name"] =
                                            orig["keywords"][n]["name"]
                                      /\ DOMAIN now["keywords"][n] = {"name", "url"}
                  /\ (sharing /\ handed[i].kind = "collection") =>
                        now \in Range(collections)
        /\ ~sharing => collections \in StoreCollections

C9_Witness ==
    /\ pc = "responded" /\ op.handler = "doc_for_library" /\ status = 200
    /\ sharing
    /\ Renders(handed[1].orig["doc"]) = 1
    /\ Renders(handed[1].now["doc"]) = 2
    /\ "url" \in DOMAIN handed[1].orig
    /\ handed[1].now \in Range(collections)

ConverterCalls ==
    Filter(trace, [e \in Range(trace) |-> e.ev = "call" /\ e.what = "DocToHtml"])

PageResponded == pc = "responded" /\ op.handler = "doc_for_library"

\* C10: doc_to_html gives "" for an empty or absent doc under every format
\* tag, and the converter is never called with an empty or absent doc: in a
\* library page request it is called once for each keyword doc and library
\* doc that is not empty, and for no other.
C10_EmptyDocNeverConverted ==
    /\ \A i \in 1..Len(trace) :
          (trace[i].ev = "call" /\ trace[i].what = "DocToHtml")
              => Truthy(trace[i].ctx[2])
    /\ (PageResponded /\ status = 200) =>
          LET rows == kwdb_get_keyword_data(keywords, op.collection_id)
              docs == [n \in 1..Len(rows) |-> rows[n][4]]
                          \o <<handed[1].orig["doc"]>>
              full == Filter(docs, [d \in Range(docs) |-> d # <<>> /\ d # None])
          IN  /\ Len(ConverterCalls) = Len(full)
              /\ \A n \in 1..Len(full) : ConverterCalls[n].ctx[2] = full[n]
              /\ \A n \in 1..Len(rows) :
                    rows[n][4] = <<>> => body.keywords[n][3] = <<>>
              /\ handed[1].orig["doc"] \in {<<>>, None} =>
                    body.libdoc["doc"] = <<>>

C10_Witness ==
    /\ PageResponded /\ status = 200
    /\ op.collection_id = S_2
    /\ PageFormat(handed[1].orig) = S_BOGUS
    /\ Len(body.keywords) = 1
    /\ body.keywords[1][3] = <<>>
    /\ body.libdoc["doc"] = <<>>
    /\ ConverterCalls = <<>>

====
